---- MODULE Spec2Model ----
(***************************************************************************)
(* The GStreamer capture backend of the Whispering recorder                *)
(* (recorder/gstreamer_recorder.rs) as a state machine: the control path   *)
(* (init_session, start/stop/cancel_recording, close_session,              *)
(* get_current_recording_id, enumerate_devices), which the command         *)
(* handlers of recorder/commands.rs run one at a time under the recorder   *)
(* mutex, interleaved with the appsink new_sample callback, which runs on  *)
(* the pipeline's streaming thread.                                        *)
(*                                                                         *)
(* A control operation is cut into steps at its accesses to what the       *)
(* callback shares with it: the is_recording flag, the pipeline's state    *)
(* and the writer's lock.  Strings and paths are sequences of characters.  *)
(* An Option is a sequence of length 0 (None) or 1 (Some).                 *)
(***************************************************************************)
EXTENDS Integers, Sequences, FiniteSets, TLC

\* ------------------------------------------------------------------ bounds

\* WavWriter/Pipeline pairs that exist at once: the session's, and one of
\* an earlier session that a callback still running keeps alive.
MaxEncoders == 2
\* Samples one encoder takes in all.
MaxSamples == 2
\* Bytes in one buffer the appsink hands to the callback.
MaxBufBytes == 4
\* finalize() invocations counted per encoder; the count saturates here.
MaxFinalizeCount == 2

\* --------------------------------------------------------------- constants

\* unwrap_or(16000)
DefaultSampleRate == 16000
\* let channels = 1
MonoChannels == 1
\* data.len() / 4
BytesPerSample == 4

\* ----------------------------------------------------------------- options

None == <<>>

Some(x) == <<x>>

IsSome(o) == o # <<>>

Unwrap(o) == o[1]

\* ------------------------------------------------------------------- paths

WavExt == <<".", "w", "a", "v">>

\* format!("{}.wav", recording_id)
WavFileName(recording_id) == recording_id \o WavExt

\* PathBuf::join: an absolute argument replaces the base.
PathJoin(base, rel) ==
  IF Len(rel) > 0 /\ rel[1] = "/" THEN rel
  ELSE IF Len(base) > 0 /\ base[Len(base)] # "/" THEN base \o <<"/">> \o rel
  ELSE base \o rel

\* Index of the last occurrence of character c in s, 0 when there is none.
LastIndexOf(s, c) ==
  LET hits == {i \in 1..Len(s) : s[i] = c}
  IN IF hits = {} THEN 0 ELSE CHOOSE i \in hits : \A j \in hits : j <= i

\* Path::file_name: the last component.
FileName(path) ==
  LET i == LastIndexOf(path, "/")
  IN SubSeq(path, i + 1, Len(path))

\* Path::file_stem: None for "..", the whole name when it has no '.', or
\* only a leading one; otherwise what precedes the last '.'.
FileStem(path) ==
  LET name == FileName(path)
      dot == LastIndexOf(name, ".")
  IN IF name = <<>> \/ name = <<".", ".">> THEN None
     ELSE IF dot <= 1 THEN Some(name)
     ELSE Some(SubSeq(name, 1, dot - 1))

\* ------------------------------------------------------------------ inputs

Devices == {<<"d","e","f","a","u","l","t">>, <<"D","e","f","a","u","l","t">>,
            <<"p","i","p","e","w","i","r","e">>, <<"p","u","l","s","e">>,
            <<"m","i","c">>}

OutputFolders == {<<"/", "o">>}

\* The identifier is any string the caller sends: a plain one, and one that
\* is an absolute path.
RecordingIds == {<<"a">>, <<"/", "b">>}

PreferredRates == {None, Some(8000)}

EncoderIds == 1..MaxEncoders

\* str::to_lowercase on the letters the device names use.
LowerChar(c) ==
  IF c = "D" THEN "d" ELSE c

ToLowercase(s) == [i \in 1..Len(s) |-> LowerChar(s[i])]

\* create_audio_source: the element built for a device name, given which
\* element factories can build (pw: pipewiresrc, pa: pulsesrc, au:
\* autoaudiosrc); an error message when none can.
CreateAudioSource(device_name, pw, pa, au) ==
  LET name == ToLowercase(device_name)
  IN IF name = <<"d","e","f","a","u","l","t">> THEN
       IF pw THEN [ok |-> TRUE, v |-> "pipewiresrc"]
       ELSE IF pa THEN [ok |-> TRUE, v |-> "pulsesrc"]
       ELSE IF au THEN [ok |-> TRUE, v |-> "autoaudiosrc"]
       ELSE [ok |-> FALSE, v |-> "Failed to create audio source"]
     ELSE IF name = <<"p","i","p","e","w","i","r","e">> THEN
       IF pw THEN [ok |-> TRUE, v |-> "pipewiresrc"]
       ELSE [ok |-> FALSE, v |-> "Failed to create pipewiresrc"]
     ELSE IF name = <<"p","u","l","s","e">> THEN
       IF pa THEN [ok |-> TRUE, v |-> "pulsesrc"]
       ELSE [ok |-> FALSE, v |-> "Failed to create pulsesrc"]
     ELSE
       IF pw THEN [ok |-> TRUE, v |-> "pipewiresrc"]
       ELSE IF pa THEN [ok |-> TRUE, v |-> "pulsesrc"]
       ELSE [ok |-> FALSE, v |-> "Cannot create audio source for device"]

\* What create_audio_source can return for the device names and the
\* element factories there can be.
SourceOutcomes ==
  {CreateAudioSource(device_name, pw, pa, au) :
     device_name \in Devices, pw \in BOOLEAN, pa \in BOOLEAN, au \in BOOLEAN}

\* The steps of init_session after create_audio_source that can fail, in
\* the order the code takes them; "none": all succeed.
BuildFailures == {"none", "audioconvert", "audioresample", "capsfilter",
                  "appsink", "add", "link"}

\* sink.downcast::<AppSink>().unwrap(), which follows them: it panics when
\* the element the "appsink" factory built is not an AppSink.
BuildOutcomes == BuildFailures \cup {"downcast"}

BuildError(f) ==
  CASE f = "audioconvert" -> "Failed to create audioconvert"
    [] f = "audioresample" -> "Failed to create audioresample"
    [] f = "capsfilter" -> "Failed to create capsfilter"
    [] f = "appsink" -> "Failed to create appsink"
    [] f = "add" -> "Failed to add elements to pipeline"
    [] OTHER -> "Failed to link pipeline elements"

\* ------------------------------------------------------------------- state

VARIABLES
  pipeline,       \* self.pipeline: Option of the id of the Pipeline
  writer,         \* self.writer: Option of the id of the WavWriter
  is_recording,   \* the one AtomicBool behind self.is_recording
  sample_rate,    \* self.sample_rate
  channels,       \* self.channels
  file_path,      \* self.file_path: Option of a path
  pipeState,      \* per id: the Pipeline object, "Absent" (none, or
                  \* dropped), "Null" or "Playing"
  encSamples,     \* per id: samples the WavWriter has taken
  encFinalizes,   \* per id: finalize() invocations on the WavWriter
  encFormat,      \* per id: the WavWriter's sample rate and channels
  encLock,        \* per id: who holds the writer's Mutex
  disk,           \* the paths that exist on disk
  pc,             \* the control path's position; "idle" between operations
  op,             \* the control operation in progress or last finished
  after,          \* the caller close_session returns to
  loc,            \* init_session's arguments and locals
  cb,             \* per id: the pipeline's streaming thread inside the
                  \* new_sample callback
  ret,            \* what the last finished control operation returned
  steps,          \* history: the steps of op so far: the flag cleared, the
                  \* pipeline's halt and the file's removal attempted, the
                  \* writer finalized
  pre,            \* history: the struct and the disk when the operation in
                  \* progress was called
  stopped,        \* history: stop_recording has returned a finished
                  \* recording for the session the struct holds
  flag_arc,       \* self.is_recording: which AtomicBool the Arc points to
  cb_flag,        \* per id: the AtomicBool the pipeline's callback captured
  recorder_mutex, \* AppData.recorder: the Mutex around the backend, "free",
                  \* "held", or "poisoned" by a panic of its holder
  variant,        \* the AudioRecorderImpl variant AppData holds
  target_os,      \* cfg(target_os): what the build targets
  gstreamer_init, \* what gstreamer::init() returned at construction
  encDropped      \* history, per id: since the flag was set last, a
                  \* write_samples_f32 on the session's WavWriter has
                  \* failed and its buffer was dropped

struct == <<pipeline, writer, is_recording, sample_rate, channels, file_path>>

gst == <<pipeState>>

\* The WavWriters, their locks and what the callbacks captured.
encState == <<encSamples, encFinalizes, encFormat, encLock, cb_flag>>

encoders == <<encState, encDropped>>

control == <<pc, op, after, loc, ret, steps, pre, stopped, recorder_mutex>>

\* What no operation assigns after construction.
fixed == <<flag_arc, variant, target_os, gstreamer_init>>

vars == <<pipeline, writer, is_recording, sample_rate, channels, file_path,
          pipeState, encSamples, encFinalizes, encFormat, encLock, disk,
          pc, op, after, loc, cb, ret, steps, pre, stopped, flag_arc, cb_flag,
          recorder_mutex, variant, target_os, gstreamer_init, encDropped>>

NoLoc == [new |-> 0, path |-> <<>>, taken |-> 0, output_folder |-> <<>>,
          recording_id |-> <<>>, preferred_sample_rate |-> None]

\* The streaming thread outside the callback; flow: what new_sample
\* returned to the pipeline last.
CbIdle == [pc |-> "idle", n |-> 0, flow |-> "Ok"]

NoFormat == [sample_rate |-> 0, channels |-> 0]

\* No buffer was dropped.
NoDrops == [k \in EncoderIds |-> FALSE]

\* The fields of the struct, and the disk, as one value.
Snapshot ==
  [pipeline |-> pipeline, writer |-> writer, is_recording |-> is_recording,
   sample_rate |-> sample_rate, channels |-> channels,
   file_path |-> file_path, disk |-> disk]

\* No operation is in progress: nothing to compare with.
NoPre == [pipeline |-> None, writer |-> None, is_recording |-> FALSE,
          sample_rate |-> 0, channels |-> 0, file_path |-> None, disk |-> {}]

\* The operation in progress has not returned yet.
Pending == [op |-> "", ok |-> FALSE, err |-> "pending", val |-> None]

Ok(o, v) == [op |-> o, ok |-> TRUE, err |-> "", val |-> v]

Err(o, e) == [op |-> o, ok |-> FALSE, err |-> e, val |-> None]

\* What the build can target: Linux, where GStreamer is tried first, or
\* any other system.
TargetOs == {"linux", "other"}

\* GStreamerRecorder::new: gstreamer::init() failing is its only error.
GStreamerRecorderNew(init_ok) ==
  IF init_ok THEN [ok |-> TRUE, v |-> "GStreamer"]
  ELSE [ok |-> FALSE, v |-> "Failed to initialize GStreamer"]

\* An AudioRecorderImpl::new that returns the error of
\* GStreamerRecorder::new instead of falling back.
AudioRecorderImplNew_Propagates(os, init_ok) ==
  IF os = "linux"
  THEN GStreamerRecorderNew(init_ok)
  ELSE [ok |-> TRUE, v |-> "Cpal"]

\* AudioRecorderImpl::new: on Linux the GStreamer variant when its
\* construction succeeds; the CPAL variant otherwise.  Always Ok.
AudioRecorderImplNew(os, init_ok) ==
  IF os = "linux" /\ GStreamerRecorderNew(init_ok).ok
  THEN [ok |-> TRUE, v |-> "GStreamer"]
  ELSE [ok |-> TRUE, v |-> "Cpal"]

\* AppData::new: AudioRecorderImpl::new().unwrap_or_else(CPAL).
AppDataNew(os, init_ok) ==
  LET r == AudioRecorderImplNew(os, init_ok)
  IN IF r.ok THEN r.v ELSE "Cpal"

\* AppData::new, with GStreamerRecorder::new inside it when it is tried.
Init ==
  /\ target_os \in TargetOs
  /\ gstreamer_init \in BOOLEAN
  /\ target_os # "linux" => ~gstreamer_init
  /\ variant = AppDataNew(target_os, gstreamer_init)
  /\ recorder_mutex = "free"
  /\ flag_arc = 1
  /\ cb_flag = [k \in EncoderIds |-> 0]
  /\ pipeline = None
  /\ writer = None
  /\ is_recording = FALSE
  /\ sample_rate = 0
  /\ channels = 0
  /\ file_path = None
  /\ pipeState = [k \in EncoderIds |-> "Absent"]
  /\ encSamples = [k \in EncoderIds |-> 0]
  /\ encFinalizes = [k \in EncoderIds |-> 0]
  /\ encFormat = [k \in EncoderIds |-> NoFormat]
  /\ encDropped = NoDrops
  /\ encLock = [k \in EncoderIds |-> "free"]
  /\ disk = {}
  /\ pc = "idle"
  /\ op = "new"
  /\ after = "none"
  /\ loc = NoLoc
  /\ cb = [k \in EncoderIds |-> CbIdle]
  /\ ret = Ok("new", None)
  /\ steps = <<>>
  /\ pre = NoPre
  /\ stopped = FALSE

\* ------------------------------------------------- the new_sample callback

\* The pipeline whose streaming thread can call back: one that is Playing
\* and whose sink has not returned a flow error.  A dropped pipeline starts
\* no new callback; one already running goes on.
Streaming(k) == pipeState[k] = "Playing" /\ cb[k].flow = "Ok"

\* data.len() / 4
SampleCount(len) == len \div BytesPerSample

\* Nothing but a callback refers to WavWriter k any more: the struct does
\* not, its pipeline is dropped, and no operation holds it in a local.
Orphan(k) ==
  /\ writer # Some(k)
  /\ pipeState[k] = "Absent"
  /\ loc.new # k
  /\ loc.taken # k

\* is_recording.load(Acquire) in the callback of pipeline k: the value of
\* the AtomicBool it captured, which is the struct's while both are the
\* same cell; a cell the control path no longer writes stays false.
FlagLoaded(k) == IF cb_flag[k] = flag_arc THEN is_recording ELSE FALSE

\* new_sample is entered and loads the flag: false, it returns at once.
CbLoadFlag ==
  /\ \E k \in EncoderIds :
       /\ cb[k].pc = "idle"
       /\ Streaming(k)
       /\ cb' = IF FlagLoaded(k) THEN [cb EXCEPT ![k].pc = "pull"]
                ELSE cb
  /\ UNCHANGED <<struct, gst, encoders, disk, control, fixed>>

\* pull_sample, sample.buffer and map_readable: the bytes become samples,
\* or one of the three gives nothing and the callback goes to return.
CbPull ==
  /\ \E k \in EncoderIds :
       /\ cb[k].pc = "pull"
       /\ \E got \in {"no_sample", "no_buffer", "no_map", "mapped"} :
          \E len \in 0..MaxBufBytes :
            /\ encSamples[k] + SampleCount(len) <= MaxSamples
            /\ cb' = IF got = "mapped"
                     THEN [cb EXCEPT ![k].pc = "lock",
                                     ![k].n = SampleCount(len)]
                     ELSE [cb EXCEPT ![k].pc = "return"]
  /\ UNCHANGED <<struct, gst, encoders, disk, control, fixed>>

\* A callback that locks the recorder as well as the writer.
CbLock_TakesRecorderMutex ==
  /\ \E k \in EncoderIds :
       /\ cb[k].pc = "lock"
       /\ recorder_mutex = "free"
       /\ encLock[k] = "free"
       /\ encLock' = [encLock EXCEPT ![k] = "cb"]
       /\ cb' = [cb EXCEPT ![k].pc = "write"]
  /\ UNCHANGED <<struct, gst, encSamples, encFinalizes, encFormat,
                 encDropped, cb_flag, disk, control, fixed>>

\* writer_clone.lock()
CbLock ==
  /\ \E k \in EncoderIds :
       /\ cb[k].pc = "lock"
       /\ encLock[k] = "free"
       /\ encLock' = [encLock EXCEPT ![k] = "cb"]
       /\ cb' = [cb EXCEPT ![k].pc = "write"]
  /\ UNCHANGED <<struct, gst, encSamples, encFinalizes, encFormat,
                 encDropped, cb_flag, disk, control, fixed>>

\* A callback that returns the error of a failed write to the pipeline
\* (w.write_samples_f32(samples) mapped to Err(FlowError::Error)).
CbWrite_PropagatesError ==
  /\ \E k \in EncoderIds :
       /\ cb[k].pc = "write"
       /\ \E wrote \in BOOLEAN :
            /\ encSamples' = IF wrote
                             THEN [encSamples EXCEPT ![k] = @ + cb[k].n]
                             ELSE encSamples
            /\ encDropped' = IF ~wrote /\ is_recording /\ writer = Some(k)
                             THEN [encDropped EXCEPT ![k] = TRUE]
                             ELSE encDropped
            /\ cb' = IF wrote
                     THEN [cb EXCEPT ![k].pc = "return", ![k].n = 0]
                     ELSE [cb EXCEPT ![k] =
                             [pc |-> "idle", n |-> 0, flow |-> "Error"]]
       /\ encLock' = [encLock EXCEPT ![k] = "free"]
  /\ UNCHANGED <<struct, gst, encFinalizes, encFormat, cb_flag, disk, control,
                 fixed>>

\* let _ = w.write_samples_f32(samples): the samples are appended, or the
\* write fails and is ignored; the guard is dropped.
CbWrite ==
  /\ \E k \in EncoderIds :
       /\ cb[k].pc = "write"
       /\ \E wrote \in BOOLEAN :
            /\ encSamples' = IF wrote
                             THEN [encSamples EXCEPT ![k] = @ + cb[k].n]
                             ELSE encSamples
            /\ encDropped' = IF ~wrote /\ is_recording /\ writer = Some(k)
                             THEN [encDropped EXCEPT ![k] = TRUE]
                             ELSE encDropped
       /\ encLock' = [encLock EXCEPT ![k] = "free"]
       /\ cb' = [cb EXCEPT ![k].pc = "return", ![k].n = 0]
  /\ UNCHANGED <<struct, gst, encFinalizes, encFormat, cb_flag, disk, control,
                 fixed>>

\* Ok(gstreamer::FlowSuccess::Ok).  A callback that outlived its pipeline
\* held the last reference to the WavWriter, which goes with it.
CbReturn ==
  /\ \E k \in EncoderIds :
       /\ cb[k].pc = "return"
       /\ cb' = [cb EXCEPT ![k] = CbIdle]
       /\ encSamples' = IF Orphan(k) THEN [encSamples EXCEPT ![k] = 0]
                        ELSE encSamples
       /\ encFinalizes' = IF Orphan(k) THEN [encFinalizes EXCEPT ![k] = 0]
                          ELSE encFinalizes
       /\ encFormat' = IF Orphan(k) THEN [encFormat EXCEPT ![k] = NoFormat]
                       ELSE encFormat
       /\ cb_flag' = IF Orphan(k) THEN [cb_flag EXCEPT ![k] = 0] ELSE cb_flag
       /\ encDropped' = encDropped
  /\ UNCHANGED <<struct, gst, encLock, disk, control, fixed>>

\* ---------------------------------------------------------- GStreamer

\* pipeline.set_state(State::Null) returning Ok: the streaming thread is
\* joined, so it returns only when no callback of that pipeline is running.
Joined(k) == cb[k].pc = "idle"

\* WavWriter::finalize is counted per encoder; the count saturates.
Finalized(k) ==
  [encFinalizes EXCEPT ![k] = IF @ < MaxFinalizeCount THEN @ + 1 ELSE @]

\* No callback is running that outlived its pipeline.  Such a callback has
\* loaded the flag already and writes to a WavWriter the struct no longer
\* refers to, so its remaining steps commute with every later operation's:
\* the model lets it return before the next operation is called.
NoOrphanRunning == \A k \in EncoderIds : cb[k].pc # "idle" => ~Orphan(k)

\* A command handler that calls the backend without locking the recorder.
CanCall_NoLock ==
  /\ variant = "GStreamer"
  /\ NoOrphanRunning

\* A command handler that takes the backend out of a poisoned mutex
\* (PoisonError::into_inner) and calls it all the same.
CanCall_IgnoresPoison ==
  /\ recorder_mutex \in {"free", "poisoned"}
  /\ pc = "idle"
  /\ variant = "GStreamer"
  /\ NoOrphanRunning

\* state.recorder.lock() succeeds and the facade forwards to the GStreamer
\* variant: the recorder mutex is free, so no operation is in progress.
CanCall ==
  /\ recorder_mutex = "free"
  /\ pc = "idle"
  /\ variant = "GStreamer"
  /\ NoOrphanRunning

\* A control operation is called: what it leaves behind for the history.
Called(name) ==
  /\ CanCall
  /\ recorder_mutex' = "held"
  /\ op' = name
  /\ pre' = Snapshot
  /\ ret' = Pending

\* A control operation returns r.
Returns(r) ==
  /\ pc' = "idle"
  /\ recorder_mutex' = "free"
  /\ ret' = r
  /\ pre' = NoPre
  /\ loc' = NoLoc
  /\ after' = "none"

\* A control operation panics: the stack unwinds and the MutexGuard of the
\* command handler is dropped while panicking, which poisons the recorder
\* mutex.  The command gives its caller no result.
Panics ==
  /\ pc' = "idle"
  /\ recorder_mutex' = "poisoned"
  /\ ret' = Err(op, "panic")
  /\ pre' = NoPre
  /\ loc' = NoLoc
  /\ after' = "none"

\* A control operation goes on at position p.
GoesOn(p) ==
  /\ pc' = p
  /\ UNCHANGED <<ret, pre, recorder_mutex, fixed>>

\* ------------------------------------------------------- start_recording

\* A start_recording that does not look for a pipeline before it sets the
\* flag: with no session it stores true and returns Ok(()).
CallStartRecording_FlagWithoutSession ==
  /\ CanCall
  /\ op' = "start_recording"
  /\ steps' = <<>>
  /\ IF IsSome(pipeline)
     THEN /\ \E playing \in BOOLEAN :
               IF playing
               THEN /\ pipeState' =
                         [pipeState EXCEPT ![Unwrap(pipeline)] = "Playing"]
                    /\ pc' = "start_flag"
                    /\ recorder_mutex' = "held"
                    /\ ret' = Pending
                    /\ pre' = Snapshot
                    /\ UNCHANGED <<loc, after>>
               ELSE /\ pipeState' = pipeState
                    /\ Returns(Err("start_recording",
                                   "Failed to start pipeline"))
          /\ is_recording' = is_recording
     ELSE /\ pipeState' = pipeState
          /\ is_recording' = TRUE
          /\ Returns(Ok("start_recording", None))
  /\ UNCHANGED <<pipeline, writer, sample_rate, channels, file_path,
                 encoders, disk, cb, stopped, fixed>>

\* A facade that gives up the GStreamer variant for the CPAL one when
\* start_recording fails to start the pipeline.
CallStartRecording_FallsBack ==
  /\ CanCall
  /\ op' = "start_recording"
  /\ steps' = <<>>
  /\ IF IsSome(pipeline)
     THEN \E playing \in BOOLEAN :
            IF playing
            THEN /\ pipeState' = [pipeState EXCEPT ![Unwrap(pipeline)] = "Playing"]
                 /\ pc' = "start_flag"
                 /\ recorder_mutex' = "held"
                 /\ ret' = Pending
                 /\ pre' = Snapshot
                 /\ variant' = variant
                 /\ UNCHANGED <<loc, after>>
            ELSE /\ pipeState' = pipeState
                 /\ variant' = "Cpal"
                 /\ Returns(Err("start_recording", "Failed to start pipeline"))
     ELSE /\ pipeState' = pipeState
          /\ variant' = variant
          /\ Returns(Err("start_recording", "No recording session initialized"))
  /\ UNCHANGED <<struct, encoders, disk, cb, stopped, flag_arc, target_os,
                 gstreamer_init>>

\* A start_recording that stores true in the flag before it sets the
\* pipeline to Playing, and returns the failed transition with it set.
CallStartRecording_FlagFirst ==
  /\ CanCall
  /\ op' = "start_recording"
  /\ steps' = <<>>
  /\ IF IsSome(pipeline)
     THEN /\ is_recording' = TRUE
          /\ \E playing \in BOOLEAN :
               IF playing
               THEN /\ pipeState' =
                         [pipeState EXCEPT ![Unwrap(pipeline)] = "Playing"]
                    /\ pc' = "start_flag"
                    /\ recorder_mutex' = "held"
                    /\ ret' = Pending
                    /\ pre' = Snapshot
                    /\ UNCHANGED <<loc, after>>
               ELSE /\ pipeState' = pipeState
                    /\ Returns(Err("start_recording",
                                   "Failed to start pipeline"))
     ELSE /\ is_recording' = is_recording
          /\ pipeState' = pipeState
          /\ Returns(Err("start_recording", "No recording session initialized"))
  /\ UNCHANGED <<pipeline, writer, sample_rate, channels, file_path,
                 encoders, disk, cb, stopped, fixed>>

\* start_recording up to set_state(Playing): no pipeline, or a failed
\* transition, is an error; a failed set_state leaves the pipeline as it was.
CallStartRecording ==
  /\ CanCall
  /\ op' = "start_recording"
  /\ steps' = <<>>
  /\ IF IsSome(pipeline)
     THEN \E playing \in BOOLEAN :
            IF playing
            THEN /\ pipeState' = [pipeState EXCEPT ![Unwrap(pipeline)] = "Playing"]
                 /\ pc' = "start_flag"
                 /\ recorder_mutex' = "held"
                 /\ ret' = Pending
                 /\ pre' = Snapshot
                 /\ UNCHANGED <<loc, after>>
            ELSE /\ pipeState' = pipeState
                 /\ Returns(Err("start_recording", "Failed to start pipeline"))
     ELSE /\ pipeState' = pipeState
          /\ Returns(Err("start_recording", "No recording session initialized"))
  /\ UNCHANGED <<struct, encoders, disk, cb, stopped, fixed>>

\* self.is_recording.store(true); Ok(())
StartSetFlag ==
  /\ pc = "start_flag"
  /\ is_recording' = TRUE
  /\ Returns(Ok("start_recording", None))
  /\ UNCHANGED <<pipeline, writer, sample_rate, channels, file_path, gst,
                 encoders, disk, op, cb, steps, stopped, fixed>>

\* -------------------------------------------------------- stop_recording

\* A stop_recording that halts and finalizes without clearing the flag.
CallStopRecording_FlagKept ==
  /\ Called("stop_recording")
  /\ steps' = <<>>
  /\ pc' = "stop_null"
  /\ UNCHANGED <<struct, gst, encoders, disk, after, loc, cb, stopped, fixed>>

\* stop_recording: self.is_recording.store(false) comes first.
CallStopRecording ==
  /\ Called("stop_recording")
  /\ is_recording' = FALSE
  /\ encDropped' = NoDrops
  /\ steps' = <<"flag_false">>
  /\ pc' = "stop_null"
  /\ UNCHANGED <<pipeline, writer, sample_rate, channels, file_path, gst,
                 encState, disk, after, loc, cb, stopped, fixed>>

\* if let Some(pipeline): set_state(Null)?, whose failure is returned.
StopHaltPipeline ==
  /\ pc = "stop_null"
  /\ IF IsSome(pipeline)
     THEN \E halted \in BOOLEAN :
            IF halted
            THEN /\ Joined(Unwrap(pipeline))
                 /\ pipeState' = [pipeState EXCEPT ![Unwrap(pipeline)] = "Null"]
                 /\ steps' = Append(steps, "halt")
                 /\ GoesOn("stop_lock")
                 /\ UNCHANGED <<loc, after>>
            ELSE /\ pipeState' = pipeState
                 /\ steps' = Append(steps, "halt_failed")
                 /\ Returns(Err("stop_recording", "Failed to stop pipeline"))
     ELSE /\ pipeState' = pipeState
          /\ steps' = steps
          /\ GoesOn("stop_lock")
          /\ UNCHANGED <<loc, after>>
  /\ UNCHANGED <<struct, encoders, disk, op, cb, stopped, fixed>>

\* file_path.as_ref().map(|p| p.to_string_lossy().to_string())
PathString == file_path

\* The AudioRecording stop_recording returns; the duration is kept exact as
\* <<samples, samples per second>>.
AudioRecording(rate, ch, duration) ==
  [audio_data |-> <<>>, sample_rate |-> rate, channels |-> ch,
   duration_seconds |-> duration, file_path |-> PathString]

\* A stop_recording that takes the writer for granted: self.writer
\* unwrapped, which panics when there is none.
StopLockWriter_Unwrap ==
  /\ pc = "stop_lock"
  /\ IF IsSome(writer)
     THEN /\ encLock[Unwrap(writer)] = "free"
          /\ encLock' = [encLock EXCEPT ![Unwrap(writer)] = "ctl"]
          /\ GoesOn("stop_finalize")
          /\ UNCHANGED <<loc, after>>
     ELSE /\ encLock' = encLock
          /\ Returns(Err("stop_recording", "panic"))
  /\ UNCHANGED <<struct, gst, encSamples, encFinalizes, encFormat,
                 encDropped, cb_flag, disk, op, cb, steps, stopped, fixed>>

\* if let Some(writer): writer.lock(); else the struct's rate and channels
\* with a duration of 0.0 are returned.
StopLockWriter ==
  /\ pc = "stop_lock"
  /\ IF IsSome(writer)
     THEN /\ encLock[Unwrap(writer)] = "free"
          /\ encLock' = [encLock EXCEPT ![Unwrap(writer)] = "ctl"]
          /\ GoesOn("stop_finalize")
          /\ UNCHANGED <<loc, after>>
     ELSE /\ encLock' = encLock
          /\ Returns(Ok("stop_recording",
                        Some(AudioRecording(sample_rate, channels, <<0, 1>>))))
  /\ UNCHANGED <<struct, gst, encSamples, encFinalizes, encFormat,
                 encDropped, cb_flag, disk, op, cb, steps, stopped, fixed>>

\* WavWriter::get_metadata: (sample_rate, channels, duration), the duration
\* being the samples written over sample_rate * channels.
GetMetadata(k) ==
  [sample_rate |-> encFormat[k].sample_rate,
   channels |-> encFormat[k].channels,
   duration |-> <<encSamples[k],
                  encFormat[k].sample_rate * encFormat[k].channels>>]

\* A stop_recording that reports the struct's rate and channels with a
\* duration of 0.0 whatever the writer has taken.
StopFinalize_NoMetadata ==
  /\ pc = "stop_finalize"
  /\ LET k == Unwrap(writer)
     IN /\ encFinalizes' = Finalized(k)
        /\ encLock' = [encLock EXCEPT ![k] = "free"]
        /\ steps' = Append(steps, "finalize")
        /\ \E finalized \in BOOLEAN :
             /\ Returns(IF finalized
                        THEN Ok("stop_recording",
                                Some(AudioRecording(sample_rate, channels,
                                                    <<0, 1>>)))
                        ELSE Err("stop_recording", "Failed to finalize WAV"))
             /\ stopped' = (stopped \/ finalized)
  /\ UNCHANGED <<struct, gst, encSamples, encFormat, encDropped, cb_flag,
                 disk, op, cb, fixed>>

\* w.finalize()?, w.get_metadata(), then the AudioRecording is returned; a
\* failed finalize is returned as the error.  The guard is dropped.
StopFinalize ==
  /\ pc = "stop_finalize"
  /\ LET k == Unwrap(writer)
         m == GetMetadata(k)
     IN /\ encFinalizes' = Finalized(k)
        /\ encLock' = [encLock EXCEPT ![k] = "free"]
        /\ steps' = Append(steps, "finalize")
        /\ \E finalized \in BOOLEAN :
             /\ Returns(IF finalized
                        THEN Ok("stop_recording",
                                Some(AudioRecording(m.sample_rate, m.channels,
                                                    m.duration)))
                        ELSE Err("stop_recording", "Failed to finalize WAV"))
             /\ stopped' = (stopped \/ finalized)
  /\ UNCHANGED <<struct, gst, encSamples, encFormat, encDropped, cb_flag,
                 disk, op, cb, fixed>>

\* --------------------------------------------------------- close_session

\* A close_session that takes the session apart without clearing the flag.
CallCloseSession_FlagKept ==
  /\ Called("close_session")
  /\ after' = "close_session"
  /\ steps' = <<>>
  /\ pc' = "close_null"
  /\ UNCHANGED <<struct, gst, encoders, disk, loc, cb, stopped, fixed>>

\* close_session called by a command: is_recording.store(false) first.
CallCloseSession ==
  /\ Called("close_session")
  /\ after' = "close_session"
  /\ is_recording' = FALSE
  /\ encDropped' = NoDrops
  /\ steps' = <<"flag_false">>
  /\ pc' = "close_null"
  /\ UNCHANGED <<pipeline, writer, sample_rate, channels, file_path, gst,
                 encState, disk, loc, cb, stopped, fixed>>

\* close_session called by cancel_recording: is_recording.store(false).
CloseClearFlag ==
  /\ pc = "close_flag"
  /\ is_recording' = FALSE
  /\ encDropped' = NoDrops
  /\ steps' = Append(steps, "flag_false")
  /\ GoesOn("close_null")
  /\ UNCHANGED <<pipeline, writer, sample_rate, channels, file_path, gst,
                 encState, disk, op, after, loc, cb, stopped, fixed>>

\* A close_session that halts the pipeline through a borrow and leaves it
\* in the struct.
CloseTakePipeline_Borrowed ==
  /\ pc = "close_null"
  /\ IF IsSome(pipeline)
     THEN /\ \E halted \in BOOLEAN :
               /\ halted => Joined(Unwrap(pipeline))
               /\ steps' = Append(steps, "halt")
               /\ pipeState' = IF halted
                                THEN [pipeState EXCEPT ![Unwrap(pipeline)] = "Null"]
                                ELSE pipeState
     ELSE /\ steps' = steps
          /\ pipeState' = pipeState
  /\ GoesOn("close_lock")
  /\ UNCHANGED <<struct, encoders, disk, op, after, loc, cb, stopped, fixed>>

\* if let Some(pipeline) = self.pipeline.take(): set_state(Null) with its
\* result ignored, and the pipeline is dropped at the end of the block.
CloseTakePipeline ==
  /\ pc = "close_null"
  /\ IF IsSome(pipeline)
     THEN /\ \E halted \in BOOLEAN :
               /\ halted => Joined(Unwrap(pipeline))
               /\ steps' = Append(steps, "halt")
          /\ pipeState' = [pipeState EXCEPT ![Unwrap(pipeline)] = "Absent"]
          /\ pipeline' = None
     ELSE /\ steps' = steps
          /\ pipeState' = pipeState
          /\ pipeline' = pipeline
  /\ GoesOn("close_lock")
  /\ UNCHANGED <<writer, is_recording, sample_rate, channels, file_path,
                 encoders, disk, op, after, loc, cb, stopped, fixed>>

\* if let Some(writer) = self.writer.take(): writer.lock().
CloseTakeWriter ==
  /\ pc = "close_lock"
  /\ IF IsSome(writer)
     THEN /\ encLock[Unwrap(writer)] = "free"
          /\ encLock' = [encLock EXCEPT ![Unwrap(writer)] = "ctl"]
          /\ loc' = [loc EXCEPT !.taken = Unwrap(writer)]
          /\ writer' = None
          /\ GoesOn("close_finalize")
     ELSE /\ encLock' = encLock
          /\ loc' = loc
          /\ writer' = writer
          /\ GoesOn("close_clear")
  /\ stopped' = FALSE
  /\ UNCHANGED <<pipeline, is_recording, sample_rate, channels, file_path,
                 gst, encSamples, encFinalizes, encFormat, encDropped,
                 cb_flag, disk, op, after, cb, steps, fixed>>

\* let _ = w.finalize(): its result is ignored; the guard is dropped.
CloseFinalize ==
  /\ pc = "close_finalize"
  /\ encFinalizes' = Finalized(loc.taken)
  /\ encLock' = [encLock EXCEPT ![loc.taken] = "free"]
  /\ steps' = Append(steps, "finalize")
  /\ GoesOn("close_clear")
  /\ UNCHANGED <<struct, gst, encSamples, encFormat, encDropped, cb_flag,
                 disk, op, after, loc, cb, stopped, fixed>>

\* f without WavWriter k, when the reference dropped was the last: its
\* pipeline is gone and no callback of it is running.
Released(f, k, zero) ==
  IF k # 0 /\ pipeState[k] = "Absent" /\ cb[k].pc = "idle"
  THEN [f EXCEPT ![k] = zero]
  ELSE f

\* A close_session that forgets self.file_path = None.
CloseClearState_PathKept ==
  /\ pc = "close_clear"
  /\ encSamples' = Released(encSamples, loc.taken, 0)
  /\ encFinalizes' = Released(encFinalizes, loc.taken, 0)
  /\ encFormat' = Released(encFormat, loc.taken, NoFormat)
  /\ cb_flag' = Released(cb_flag, loc.taken, 0)
  /\ encDropped' = encDropped
  /\ sample_rate' = 0
  /\ channels' = 0
  /\ IF after = "init_session"
     THEN /\ GoesOn("init_create")
          /\ loc' = [loc EXCEPT !.taken = 0]
          /\ after' = "none"
     ELSE Returns(Ok(after, None))
  /\ UNCHANGED <<pipeline, writer, is_recording, file_path, gst, encLock,
                 disk, op, cb, steps, stopped, fixed>>

\* The writer taken is dropped; file_path = None, sample_rate = 0,
\* channels = 0, Ok(()): back in the caller, which for close_session and
\* cancel_recording returns Ok(()) and for init_session goes on to create
\* the new session.
CloseClearState ==
  /\ pc = "close_clear"
  /\ encSamples' = Released(encSamples, loc.taken, 0)
  /\ encFinalizes' = Released(encFinalizes, loc.taken, 0)
  /\ encFormat' = Released(encFormat, loc.taken, NoFormat)
  /\ cb_flag' = Released(cb_flag, loc.taken, 0)
  /\ encDropped' = encDropped
  /\ file_path' = None
  /\ sample_rate' = 0
  /\ channels' = 0
  /\ IF after = "init_session"
     THEN /\ GoesOn("init_create")
          /\ loc' = [loc EXCEPT !.taken = 0]
          /\ after' = "none"
     ELSE Returns(Ok(after, None))
  /\ UNCHANGED <<pipeline, writer, is_recording, gst, encLock, disk, op, cb,
                 steps, stopped, fixed>>

\* ------------------------------------------------------ cancel_recording

\* cancel_recording: is_recording.store(false) first.
CallCancelRecording ==
  /\ Called("cancel_recording")
  /\ is_recording' = FALSE
  /\ encDropped' = NoDrops
  /\ steps' = <<"flag_false">>
  /\ pc' = "cancel_null"
  /\ UNCHANGED <<pipeline, writer, sample_rate, channels, file_path, gst,
                 encState, disk, after, loc, cb, stopped, fixed>>

\* if let Some(pipeline): let _ = set_state(Null), its failure ignored.
CancelHaltPipeline ==
  /\ pc = "cancel_null"
  /\ IF IsSome(pipeline)
     THEN \E halted \in BOOLEAN :
            IF halted
            THEN /\ Joined(Unwrap(pipeline))
                 /\ pipeState' = [pipeState EXCEPT ![Unwrap(pipeline)] = "Null"]
                 /\ steps' = Append(steps, "halt")
            ELSE /\ pipeState' = pipeState
                 /\ steps' = Append(steps, "halt")
     ELSE /\ pipeState' = pipeState
          /\ steps' = steps
  /\ GoesOn("cancel_remove")
  /\ UNCHANGED <<struct, encoders, disk, op, after, loc, cb, stopped, fixed>>

\* if let Some(file_path): std::fs::remove_file(file_path).ok(): the file is
\* removed, or the removal fails and the failure is ignored.  Then
\* self.close_session()? is called.
CancelRemoveFile ==
  /\ pc = "cancel_remove"
  /\ IF IsSome(file_path)
     THEN \E removed \in BOOLEAN :
            /\ disk' = IF removed THEN disk \ {Unwrap(file_path)} ELSE disk
            /\ steps' = Append(steps, IF removed THEN "remove"
                                      ELSE "remove_failed")
     ELSE /\ disk' = disk
          /\ steps' = steps
  /\ after' = "cancel_recording"
  /\ GoesOn("close_flag")
  /\ UNCHANGED <<struct, gst, encoders, op, loc, cb, stopped, fixed>>

\* ---------------------------------------------------------- init_session

\* An init_session that builds the new session without closing the old one.
CallInitSession_NoClose ==
  /\ Called("init_session")
  /\ loc' = NoLoc
  /\ after' = "none"
  /\ steps' = <<>>
  /\ pc' = "init_create"
  /\ UNCHANGED <<struct, gst, encoders, disk, cb, stopped, fixed>>

\* init_session: self.close_session()? comes first, and close_session
\* starts with is_recording.store(false).
CallInitSession ==
  /\ Called("init_session")
  /\ loc' = NoLoc
  /\ after' = "init_session"
  /\ is_recording' = FALSE
  /\ encDropped' = NoDrops
  /\ steps' = <<"flag_false">>
  /\ pc' = "close_null"
  /\ UNCHANGED <<pipeline, writer, sample_rate, channels, file_path, gst,
                 encState, disk, cb, stopped, fixed>>

\* output_folder.join(format!("{}.wav", recording_id))
SessionPath(output_folder, recording_id) ==
  PathJoin(output_folder, WavFileName(recording_id))

\* preferred_sample_rate.unwrap_or(16000)
ResolveSampleRate(preferred) ==
  IF IsSome(preferred) THEN Unwrap(preferred) ELSE DefaultSampleRate

\* An id no WavWriter or Pipeline uses.
FreeId(k) == Orphan(k) /\ cb[k].pc = "idle"

\* From the file path to the linked pipeline with its callback set.  The
\* arguments of init_session are read nowhere before, and are drawn here.
\* WavWriter::new creates the file or fails; then the source and the other
\* elements are built, added and linked, and any failure is returned, which
\* drops the writer and the pipeline built so far and leaves the file; so
\* does the panic of the unwrap on the appsink's downcast.
InitCreate ==
  /\ pc = "init_create"
  /\ \E k \in EncoderIds :
       /\ FreeId(k)
       /\ \A j \in EncoderIds : FreeId(j) => k <= j
       /\ \E output_folder \in OutputFolders, recording_id \in RecordingIds,
             created \in BOOLEAN :
            LET path == SessionPath(output_folder, recording_id)
            IN IF ~created
               THEN /\ Returns(Err("init_session", "Failed to create WAV file"))
                    /\ UNCHANGED <<disk, encFormat, encDropped, cb_flag,
                                   pipeState>>
               ELSE /\ disk' = disk \cup {path}
                    /\ \E src \in SourceOutcomes :
                         IF ~src.ok
                         THEN /\ Returns(Err("init_session", src.v))
                              /\ UNCHANGED <<encFormat, encDropped, cb_flag,
                                             pipeState>>
                         ELSE \E f \in BuildOutcomes :
                              IF f = "downcast"
                              THEN /\ Panics
                                   /\ UNCHANGED <<encFormat, encDropped,
                                                  cb_flag, pipeState>>
                              ELSE IF f # "none"
                              THEN /\ Returns(Err("init_session", BuildError(f)))
                                   /\ UNCHANGED <<encFormat, encDropped,
                                                  cb_flag, pipeState>>
                              ELSE \E preferred_sample_rate \in PreferredRates :
                                   /\ GoesOn("init_store")
                                   /\ loc' =
                                        [loc EXCEPT
                                           !.new = k,
                                           !.path = path,
                                           !.output_folder = output_folder,
                                           !.recording_id = recording_id,
                                           !.preferred_sample_rate =
                                             preferred_sample_rate]
                                   /\ after' = after
                                   /\ encFormat' =
                                        [encFormat EXCEPT
                                           ![k] = [sample_rate |->
                                                     ResolveSampleRate(
                                                       preferred_sample_rate),
                                                   channels |-> MonoChannels]]
                                   /\ cb_flag' = [cb_flag EXCEPT ![k] = flag_arc]
                                   /\ encDropped' = encDropped
                                   /\ pipeState' =
                                        [pipeState EXCEPT ![k] = "Null"]
  /\ UNCHANGED <<struct, encSamples, encFinalizes, encLock, op, cb, steps,
                 stopped, fixed>>

\* The pipeline a field assignment replaces is dropped.
DropReplaced(old) ==
  IF IsSome(old) THEN [pipeState EXCEPT ![Unwrap(old)] = "Absent"]
  ELSE pipeState

\* An init_session that gives the struct a new AtomicBool after the
\* callback has captured the old one.
InitStore_NewFlag ==
  /\ pc = "init_store"
  /\ pipeState' = DropReplaced(pipeline)
  /\ pipeline' = Some(loc.new)
  /\ writer' = Some(loc.new)
  /\ sample_rate' = encFormat[loc.new].sample_rate
  /\ channels' = encFormat[loc.new].channels
  /\ file_path' = Some(loc.path)
  /\ flag_arc' = flag_arc + 1
  /\ is_recording' = FALSE
  /\ Returns(Ok("init_session", None))
  /\ stopped' = FALSE
  /\ UNCHANGED <<encoders, disk, op, cb, steps, variant, target_os,
                 gstreamer_init>>

\* "Store everything": the fields are assigned, is_recording.store(false),
\* Ok(()).
InitStore ==
  /\ pc = "init_store"
  /\ pipeState' = DropReplaced(pipeline)
  /\ pipeline' = Some(loc.new)
  /\ writer' = Some(loc.new)
  /\ sample_rate' = encFormat[loc.new].sample_rate
  /\ channels' = encFormat[loc.new].channels
  /\ file_path' = Some(loc.path)
  /\ is_recording' = FALSE
  /\ Returns(Ok("init_session", None))
  /\ stopped' = FALSE
  /\ UNCHANGED <<encoders, disk, op, cb, steps, fixed>>

\* ------------------------------------------------------------ the readers

\* get_current_recording_id: the file stem of file_path while the flag
\* reads true, else None.
CurrentRecordingId ==
  IF is_recording
  THEN IF IsSome(file_path) THEN FileStem(Unwrap(file_path)) ELSE None
  ELSE None

GetCurrentRecordingId ==
  /\ CanCall
  /\ op' = "get_current_recording_id"
  /\ steps' = <<>>
  /\ Returns(Ok("get_current_recording_id", CurrentRecordingId))
  /\ UNCHANGED <<struct, gst, encoders, disk, cb, stopped, fixed>>

\* enumerate_devices: always the three built-in names.
DeviceList ==
  << <<"d","e","f","a","u","l","t">>, <<"p","i","p","e","w","i","r","e">>,
     <<"p","u","l","s","e">> >>

EnumerateDevices ==
  /\ CanCall
  /\ op' = "enumerate_devices"
  /\ steps' = <<>>
  /\ Returns(Ok("enumerate_devices", DeviceList))
  /\ UNCHANGED <<struct, gst, encoders, disk, cb, stopped, fixed>>

\* ------------------------------------------------------------ the facade

\* The operations the facade forwards.
ControlOps ==
  {"enumerate_devices", "init_session", "start_recording", "stop_recording",
   "cancel_recording", "close_session", "get_current_recording_id"}

\* A command whose facade holds the CPAL variant: the mutex is taken, the
\* operation is forwarded to RecorderState, and what that returns is
\* returned.  Nothing of the GStreamer backend is touched.
CpalDispatch ==
  /\ recorder_mutex = "free"
  /\ pc = "idle"
  /\ variant = "Cpal"
  /\ \E name \in ControlOps, ok \in BOOLEAN :
       /\ op' = name
       /\ Returns(IF ok THEN Ok(name, None) ELSE Err(name, "cpal"))
  /\ steps' = <<>>
  /\ UNCHANGED <<struct, gst, encoders, disk, cb, stopped, fixed>>

\* What init_recording_session finds when it determines the output
\* directory, before it locks the recorder.
FolderChecks ==
  {"ok", "missing", "not_dir", "no_app_data_dir", "create_dir_failed"}

FolderError(f) ==
  CASE f = "missing" -> "Output folder does not exist"
    [] f = "not_dir" -> "Output path is not a directory"
    [] f = "no_app_data_dir" -> "Failed to get app data dir"
    [] OTHER -> "Failed to create recordings dir"

\* init_recording_session returns an error about the output directory: the
\* recorder is neither locked nor called.
RejectOutputFolder ==
  /\ pc = "idle"
  /\ NoOrphanRunning
  /\ \E f \in FolderChecks \ {"ok"} :
       /\ op' = "init_recording_session"
       /\ ret' = Err("init_recording_session", FolderError(f))
  /\ steps' = <<>>
  /\ UNCHANGED <<struct, gst, encoders, disk, cb, stopped, fixed, pc, pre, loc,
                 after, recorder_mutex>>

\* A command whose state.recorder.lock() returns a PoisonError: the handler
\* returns "Failed to lock recorder" and the backend is not called.
LockPoisoned ==
  /\ recorder_mutex = "poisoned"
  /\ pc = "idle"
  /\ \E name \in ControlOps : ret' = Err(name, "Failed to lock recorder")
  /\ UNCHANGED <<struct, gst, encoders, disk, cb, stopped, fixed, pc, op, pre,
                 loc, after, steps, recorder_mutex>>

\* ----------------------------------------------------------- the system

Next ==
  \/ CallInitSession
  \/ InitCreate
  \/ InitStore
  \/ CallStartRecording
  \/ StartSetFlag
  \/ CallStopRecording
  \/ StopHaltPipeline
  \/ StopLockWriter
  \/ StopFinalize
  \/ CallCancelRecording
  \/ CancelHaltPipeline
  \/ CancelRemoveFile
  \/ CallCloseSession
  \/ CloseClearFlag
  \/ CloseTakePipeline
  \/ CloseTakeWriter
  \/ CloseFinalize
  \/ CloseClearState
  \/ GetCurrentRecordingId
  \/ EnumerateDevices
  \/ CpalDispatch
  \/ RejectOutputFolder
  \/ LockPoisoned
  \/ CbLoadFlag
  \/ CbPull
  \/ CbLock
  \/ CbWrite
  \/ CbReturn

Spec == Init /\ [][Next]_vars

\* ------------------------------------------------------------ scheduling

\* The positions at which the control path calls set_state(State::Null).
HaltPositions == {"stop_null", "cancel_null", "close_null"}

\* A step of the operation in progress.
ControlStep ==
  \/ InitCreate
  \/ InitStore
  \/ StartSetFlag
  \/ StopHaltPipeline
  \/ StopLockWriter
  \/ StopFinalize
  \/ CancelHaltPipeline
  \/ CancelRemoveFile
  \/ CloseClearFlag
  \/ CloseTakePipeline
  \/ CloseTakeWriter
  \/ CloseFinalize
  \/ CloseClearState

\* The thread that holds the recorder mutex runs.  set_state(State::Null)
\* returns once the streaming thread is out of the callback; that it
\* fails before then is possible and never to be counted on.
ControlProgress ==
  /\ (pc \in HaltPositions /\ IsSome(pipeline)) => Joined(Unwrap(pipeline))
  /\ ControlStep

\* The streaming thread of pipeline k runs the callback it has entered.
CbProgress(k) ==
  /\ cb[k].pc # "idle"
  /\ (CbPull \/ CbLock \/ CbWrite \/ CbReturn)
  /\ cb'[k] # cb[k]

\* Both kinds of thread are scheduled by the operating system: neither
\* stays ready forever without running.  Commands and buffers may stop
\* arriving.
FairSpec ==
  /\ Spec
  /\ WF_vars(ControlProgress)
  /\ \A k \in EncoderIds : WF_vars(CbProgress(k))

\* ------------------------------------------------------------ properties

Range(s) == {s[i] : i \in DOMAIN s}

\* Every b in steps has an a before it.
Before(a, b) ==
  \A j \in DOMAIN steps :
    steps[j] = b => \E i \in 1..(j - 1) : steps[i] = a

\* The pipelines that exist.
HeldPipelines == {k \in EncoderIds : pipeState[k] # "Absent"}

\* The WavWriters the backend holds: through the struct, through a local of
\* the operation in progress, or through the callback of a pipeline that
\* exists.
HeldWriters ==
  {k \in EncoderIds :
     writer = Some(k) \/ loc.new = k \/ loc.taken = k \/ pipeState[k] # "Absent"}

\* The session fields are those of a backend without a session.
SessionCleared ==
  /\ pipeline = None
  /\ writer = None
  /\ file_path = None
  /\ sample_rate = 0
  /\ channels = 0
  /\ ~is_recording

\* The step is the call of the operation name on the GStreamer backend.
IsCall(name) ==
  /\ variant = "GStreamer"
  /\ pc = "idle"
  /\ cb' = cb
  /\ op' = name

\* The step is the return of the operation name.
IsReturn(name) == op = name /\ pc # "idle" /\ pc' = "idle"

\* The positions of an operation after it has cleared the flag.
AfterFlagCleared ==
  {"stop_null", "stop_lock", "stop_finalize", "cancel_null", "cancel_remove",
   "close_null", "close_lock", "close_finalize", "close_clear"}

C2_NoAppendOutsideRecording ==
  [][\A k \in EncoderIds :
       encSamples'[k] > encSamples[k] =>
         (is_recording \/ (pc # "idle" /\ op # "start_recording"))]_vars

\* C3: start_recording called while no session exists returns the error
\* "No recording session initialized", leaves the flag false and changes
\* nothing of the struct, the pipelines, the encoders or the disk.
C3_StartWithoutSession ==
  [][(IsCall("start_recording") /\ pipeline = None) =>
       /\ pc' = "idle"
       /\ ret' = Err("start_recording", "No recording session initialized")
       /\ ~is_recording'
       /\ UNCHANGED <<struct, gst, encoders, disk>>]_vars

\* start_recording has returned that error on a backend that holds no
\* session after an earlier init_session has created a file.
C3_Witness ==
  /\ pc = "idle"
  /\ ret = Err("start_recording", "No recording session initialized")
  /\ SessionCleared
  /\ disk # {}

C5_FailedInitKeepsPriorSession ==
  [][(IsReturn("init_session") /\ ~ret'.ok) =>
       /\ pipeline' = pre.pipeline
       /\ writer' = pre.writer
       /\ file_path' = pre.file_path
       /\ sample_rate' = pre.sample_rate
       /\ channels' = pre.channels
       /\ is_recording' = pre.is_recording]_vars

\* C6: in stop_recording the flag is cleared first, the pipeline is halted
\* next and the encoder is finalized last, with no callback of the pipeline
\* running; in close_session and cancel_recording the flag is cleared
\* before the pipeline is halted; the flag reads false for the rest of the
\* operation, so no encoder is finalized while it reads true.
C6_StopOrdering ==
  /\ Before("flag_false", "halt")
  /\ Before("flag_false", "halt_failed")
  /\ Before("flag_false", "finalize")
  /\ op = "stop_recording" => Before("halt", "finalize")
  /\ pc \in AfterFlagCleared => ~is_recording
  /\ pc = "stop_finalize" =>
       /\ steps = <<"flag_false", "halt">>
       /\ pipeline = writer
       /\ pipeState[Unwrap(pipeline)] = "Null"
       /\ Joined(Unwrap(writer))

\* stop_recording has returned the recording of a session that had
\* samples written.
C6_Witness ==
  /\ pc = "idle"
  /\ op = "stop_recording"
  /\ ret.ok
  /\ steps = <<"flag_false", "halt", "finalize">>
  /\ IsSome(writer)
  /\ encSamples[Unwrap(writer)] > 0

\* C7 (as stated): a session that stop_recording has finished never has the
\* flag set: start_recording in Stopped does not set it.
C7_NoStartFromStopped == ~(stopped /\ is_recording)

\* C8 (as stated): no write_samples_f32 is made on an encoder that has been
\* finalized.
C8_NoWriteAfterFinalize ==
  [][\A k \in EncoderIds :
       (cb[k].pc = "write" /\ cb'[k].pc = "return") =>
         encFinalizes[k] = 0]_vars

\* C9 (as stated): finalize is invoked at most once on an encoder.
C9_FinalizeAtMostOnce == \A k \in EncoderIds : encFinalizes[k] <= 1

\* C10 (as stated): stop_recording, cancel_recording and close_session do
\* not return a failure to halt the pipeline as their error, and carry on
\* to finalize the encoder after such a failure.
C10_BestEffortCleanup ==
  (pc = "idle" /\ op \in {"stop_recording", "cancel_recording",
                          "close_session"}) =>
    /\ ret.err # "Failed to stop pipeline"
    /\ "halt_failed" \in Range(steps) => "finalize" \in Range(steps)

\* The snapshot p is that of a backend without a session.
PreUninit(p) ==
  /\ p.pipeline = None
  /\ p.writer = None
  /\ p.file_path = None
  /\ p.sample_rate = 0
  /\ p.channels = 0
  /\ ~p.is_recording

\* The step is a step of the control path inside the operation name, which
\* was called on a backend without a session.
InOpFromCleared(name) ==
  /\ op' = name
  /\ cb' = cb
  /\ \/ pc = "idle" /\ SessionCleared
     \/ pc # "idle" /\ op = name /\ PreUninit(pre)

\* C11: close_session returns Ok(()) from every state and leaves the backend
\* without a session (no pipeline, no encoder, no file path, sample rate
\* and channels 0, flag false); a close_session called on a backend
\* without a session (never initialized, or just closed) changes nothing.
C11_IdempotentClose ==
  [][/\ IsReturn("close_session") =>
          /\ ret' = Ok("close_session", None)
          /\ SessionCleared'
          /\ HeldPipelines' = {}
          /\ HeldWriters' = {}
     /\ InOpFromCleared("close_session") =>
          UNCHANGED <<struct, gst, encoders, disk>>]_vars

\* close_session has returned Ok(()) having found nothing to close, on a
\* backend that had created a file before.
C11_Witness ==
  /\ pc = "idle"
  /\ ret = Ok("close_session", None)
  /\ steps = <<"flag_false">>
  /\ SessionCleared
  /\ disk # {}

\* The identifiers init_session can have been given for the session whose
\* file path the struct holds.
SessionIds ==
  {id \in RecordingIds :
     \E folder \in OutputFolders : file_path = Some(SessionPath(folder, id))}

\* C12 (as stated): get_current_recording_id returns None while the flag
\* reads false, and while it reads true the recording_id that was passed to
\* the init_session that created the session.
C12_CurrentRecordingId ==
  (variant = "GStreamer" /\ pc = "idle" /\ op = "get_current_recording_id") =>
    /\ ret.ok
    /\ ~is_recording => ret.val = None
    /\ is_recording => \A id \in SessionIds : ret.val = Some(id)

\* C13 (as stated): once stop_recording has returned the recording of a
\* session, a later stop_recording on that session returns no second
\* recording, and a later cancel_recording does not remove its file.
C13_SingleTermination ==
  [][/\ (stopped /\ IsReturn("stop_recording")) => ~ret'.ok
     /\ (stopped /\ op = "cancel_recording") => disk \subseteq disk']_vars

\* C19: the recording stop_recording returns carries the session's sample
\* rate, channels and file path, and as duration the samples the session's
\* encoder has taken over sample_rate * channels, which is 0 when nothing
\* was written.
C19_FinalizeCorrectness ==
  (pc = "idle" /\ op = "stop_recording" /\ ret.ok /\ IsSome(writer)) =>
    LET r == Unwrap(ret.val)
        k == Unwrap(writer)
    IN /\ r.sample_rate = sample_rate
       /\ r.channels = channels
       /\ r.file_path = file_path
       /\ IsSome(file_path)
       /\ r.duration_seconds = <<encSamples[k], sample_rate * channels>>
       /\ sample_rate * channels > 0
       /\ encSamples[k] = 0 => r.duration_seconds[1] = 0

\* stop_recording has returned a recording with a duration above 0.
C19_Witness ==
  /\ pc = "idle"
  /\ op = "stop_recording"
  /\ ret.ok
  /\ IsSome(writer)
  /\ Unwrap(ret.val).duration_seconds[1] > 0
  /\ Unwrap(ret.val).sample_rate = DefaultSampleRate

\* C20: stop_recording and cancel_recording called on a backend without a
\* session do not panic: they return, having changed nothing of the
\* struct, the pipelines, the encoders or the disk, so the backend has no
\* session and the flag reads false.
C20_StopCancelUninitialized ==
  [][\A name \in {"stop_recording", "cancel_recording"} :
       /\ InOpFromCleared(name) => UNCHANGED <<struct, gst, encoders, disk>>
       /\ (IsReturn(name) /\ PreUninit(pre)) =>
            /\ ret'.op = name
            /\ ret'.err # "panic"
            /\ SessionCleared']_vars

\* stop_recording has returned an empty recording with no file path: it
\* was called on a backend without a session.
C20_Witness ==
  /\ variant = "GStreamer"
  /\ pc = "idle"
  /\ op = "stop_recording"
  /\ ret.ok
  /\ Unwrap(ret.val).file_path = None
  /\ SessionCleared

\* C14: a backend operation runs with the recorder mutex held from its call
\* to its return, and one begins only when the mutex is free and no other
\* is in progress: no two backend operations overlap, and each starts from
\* the state the previous one left when it returned.
C14_ControlMutualExclusion ==
  [][/\ (pc # "idle") <=> (recorder_mutex = "held")
     /\ (pc' # "idle") <=> (recorder_mutex' = "held")
     /\ (op' # op /\ op' \in ControlOps) =>
          (pc = "idle" /\ recorder_mutex = "free")
     /\ (pc = "idle" /\ pc' # "idle") => pre' = Snapshot]_vars

\* stop_recording holds the recorder mutex while a callback is writing.
C14_Witness ==
  /\ op = "stop_recording"
  /\ pc = "stop_null"
  /\ recorder_mutex = "held"
  /\ \E k \in EncoderIds : cb[k].pc = "write"

\* C16: AudioRecorderImpl::new returns Ok whatever the target and whatever
\* gstreamer::init() gives; the facade holds the GStreamer variant when
\* its construction succeeded on Linux, and the CPAL variant when it
\* failed or was not tried.
C16_FacadeFallback ==
  /\ \A os \in TargetOs, init_ok \in BOOLEAN :
       /\ AudioRecorderImplNew(os, init_ok).ok
       /\ AppDataNew(os, init_ok) = AudioRecorderImplNew(os, init_ok).v
  /\ variant \in {"GStreamer", "Cpal"}
  /\ variant = AudioRecorderImplNew(target_os, gstreamer_init).v
  /\ (target_os = "linux" /\ gstreamer_init) => variant = "GStreamer"
  /\ ~gstreamer_init => variant = "Cpal"

\* GStreamer failed to initialize on Linux, the facade holds the CPAL
\* variant, and an operation forwarded to it has returned.
C16_Witness ==
  /\ target_os = "linux"
  /\ ~gstreamer_init
  /\ variant = "Cpal"
  /\ pc = "idle"
  /\ ret.op \in ControlOps
  /\ ret.ok

\* C17: no step changes the variant the facade holds; a facade holding the
\* CPAL variant touches nothing of the GStreamer backend, and one holding
\* the GStreamer variant returns nothing of the CPAL backend.
C17_VariantFixed ==
  [][/\ variant' = variant
     /\ variant = "Cpal" => UNCHANGED <<struct, gst, encoders, disk, cb>>
     /\ variant = "GStreamer" => ret'.err # "cpal"]_vars

\* A start_recording has failed on the GStreamer variant, which the facade
\* still holds.
C17_Witness ==
  /\ variant = "GStreamer"
  /\ pc = "idle"
  /\ ret = Err("start_recording", "Failed to start pipeline")

\* C18: the struct's flag is the AtomicBool that new created, and the
\* callback of every pipeline that exists or still runs captured that same
\* cell, so it loads what the control path stored last.
C18_OneFlagCell ==
  /\ flag_arc = 1
  /\ \A k \in EncoderIds :
       (pipeState[k] # "Absent" \/ cb[k].pc # "idle") =>
         /\ cb_flag[k] = flag_arc
         /\ FlagLoaded(k) = is_recording

\* A second session is recording: the flag the control path set is the one
\* its callback loaded.
C18_Witness ==
  /\ Cardinality(disk) = 2
  /\ is_recording
  /\ \E k \in EncoderIds :
       /\ writer = Some(k)
       /\ cb[k].pc = "write"
       /\ cb_flag[k] = flag_arc

\* The errors init_recording_session returns before it locks the recorder.
FolderErrors == {FolderError(f) : f \in FolderChecks \ {"ok"}}

\* C21: once a panic inside a control operation has poisoned the recorder
\* mutex it stays poisoned; every command from then on returns an error
\* string ("Failed to lock recorder", or init_recording_session's error
\* about the output folder) and no backend operation begins, so the struct,
\* the pipelines and the disk never change again, and the encoders change
\* only through a callback that was already running.
C21_LockError ==
  [][recorder_mutex = "poisoned" =>
       /\ recorder_mutex' = "poisoned"
       /\ pc' = "idle"
       /\ op' \in {op, "init_recording_session"}
       /\ UNCHANGED <<struct, gst, disk>>
       /\ cb' = cb =>
            /\ UNCHANGED encoders
            /\ ~ret'.ok
            /\ ret'.err \in {"Failed to lock recorder"} \cup FolderErrors]_vars

\* init_session has panicked after it created the file, and a
\* stop_recording called afterwards has been refused at the lock.
C21_Witness ==
  /\ recorder_mutex = "poisoned"
  /\ op = "init_session"
  /\ ret = Err("stop_recording", "Failed to lock recorder")
  /\ SessionCleared
  /\ disk # {}

\* C22: the flag goes from false to true only in start_recording, after
\* set_state(Playing) has succeeded on the session's pipeline; when that
\* transition fails start_recording returns "Failed to start pipeline" and
\* leaves the struct, the pipelines and the encoders as they were, so a
\* flag that was false is still false and the session is still there.
C22_StartFlagAfterPlaying ==
  [][/\ (~is_recording /\ is_recording') =>
          /\ op = "start_recording"
          /\ pc = "start_flag"
          /\ IsSome(pipeline)
          /\ pipeState[Unwrap(pipeline)] = "Playing"
          /\ ret' = Ok("start_recording", None)
     /\ (IsCall("start_recording") /\ IsSome(pipeline) /\ pc' # "idle") =>
          /\ pc' = "start_flag"
          /\ pipeState'[Unwrap(pipeline)] = "Playing"
          /\ is_recording' = is_recording
     /\ (IsCall("start_recording") /\ IsSome(pipeline) /\ pc' = "idle") =>
          /\ ret' = Err("start_recording", "Failed to start pipeline")
          /\ UNCHANGED <<struct, gst, encoders, disk>>
          /\ ~is_recording => ~is_recording']_vars

\* start_recording has failed to set the pipeline of an initialized session
\* to Playing: the session is there, halted, and the flag reads false.
C22_Witness ==
  /\ pc = "idle"
  /\ ret = Err("start_recording", "Failed to start pipeline")
  /\ IsSome(pipeline)
  /\ IsSome(writer)
  /\ IsSome(file_path)
  /\ pipeState[Unwrap(pipeline)] = "Null"
  /\ ~is_recording

\* <output_folder>/<recording_id>.wav, as written.
StatedPath(output_folder, recording_id) ==
  output_folder \o <<"/">> \o recording_id \o WavExt

\* C23 (as stated): when init_session returns Ok(()), whatever the state it
\* was called in, the struct holds a pipeline that is not playing and an
\* encoder of the resolved format, the sample rate is the caller's
\* preference or 16000 when there is none, the channel count is 1, the
\* file path is <output_folder>/<recording_id>.wav and that file exists,
\* the flag is false and get_current_recording_id gives None.
C23_InitPostconditions ==
  [][(IsReturn("init_session") /\ ret'.ok) =>
       /\ IsSome(pipeline') /\ pipeline' = writer'
       /\ pipeState'[Unwrap(pipeline')] = "Null"
       /\ HeldPipelines' = {Unwrap(pipeline')}
       /\ sample_rate' = IF IsSome(loc.preferred_sample_rate)
                         THEN Unwrap(loc.preferred_sample_rate)
                         ELSE 16000
       /\ channels' = 1
       /\ encFormat'[Unwrap(writer')] =
            [sample_rate |-> sample_rate', channels |-> channels']
       /\ encSamples'[Unwrap(writer')] = 0
       /\ encFinalizes'[Unwrap(writer')] = 0
       /\ file_path' = Some(StatedPath(loc.output_folder, loc.recording_id))
       /\ Unwrap(file_path') \in disk'
       /\ ~is_recording'
       /\ CurrentRecordingId' = None]_vars

\* C24: a write_samples_f32 that fails inside the callback changes nothing
\* but the lock it releases: the callback goes on to return
\* FlowSuccess::Ok, the flag, the session fields and the pipeline's state
\* are as they were, and the encoder keeps what it had; no callback ever
\* returns a flow error, so until a control operation clears the flag the
\* session's pipeline keeps calling back with the flag reading true and
\* later buffers reach the encoder.
C24_DroppedBufferNotFatal ==
  [][\A k \in EncoderIds :
       /\ (~encDropped[k] /\ encDropped'[k]) => cb[k].pc = "write"
       /\ (cb[k].pc = "write" /\ cb'[k] # cb[k]) =>
            /\ cb'[k].pc = "return"
            /\ cb'[k].flow = "Ok"
            /\ encLock'[k] = "free"
            /\ encSamples'[k] \in {encSamples[k], encSamples[k] + cb[k].n}
            /\ UNCHANGED <<struct, gst, encFinalizes, encFormat, disk>>
       /\ (cb[k].pc = "return" /\ cb'[k] # cb[k]) =>
            /\ cb'[k] = CbIdle
            /\ UNCHANGED <<struct, gst, disk>>
       /\ cb[k].flow = "Ok"
       /\ encDropped[k] =>
            /\ is_recording
            /\ writer = Some(k) /\ pipeline = Some(k)
            /\ Streaming(k)
            /\ FlagLoaded(k)]_vars

\* A buffer of the recording session was dropped by a failed write, and a
\* later buffer of the same session is under the encoder's lock, about to
\* be written, with the flag still true.
C24_Witness ==
  \E k \in EncoderIds :
    /\ encDropped[k]
    /\ writer = Some(k)
    /\ is_recording
    /\ cb[k].pc = "write"
    /\ cb[k].n > 0
    /\ encLock[k] = "cb"

\* C25: in every state in which the flag reads true the struct holds a
\* pipeline that exists, an encoder and a file path, and
\* get_current_recording_id gives an identifier, so a
\* get_current_recording_id that has returned with the flag true returned
\* Some; in every state in which the struct lacks one of the three the
\* flag reads false.
C25_FlagImpliesSession ==
  /\ is_recording =>
       /\ IsSome(pipeline)
       /\ IsSome(writer)
       /\ IsSome(file_path)
       /\ pipeState[Unwrap(pipeline)] # "Absent"
       /\ CurrentRecordingId # None
       /\ (pc = "idle" /\ ret.op = "get_current_recording_id" /\ ret.ok) =>
            ret.val # None
  /\ (pipeline = None \/ writer = None \/ file_path = None) => ~is_recording

\* get_current_recording_id has returned an identifier while the session
\* records.
C25_Witness ==
  /\ is_recording
  /\ pc = "idle"
  /\ ret = Ok("get_current_recording_id", Some(<<"a">>))
  /\ IsSome(pipeline)
  /\ pipeState[Unwrap(pipeline)] = "Playing"

\* C15: the control path never waits for the pipeline to halt while it
\* holds an encoder's lock, and the callback waits for nothing but that
\* lock; so every control operation that was called returns, and every
\* callback that was entered returns: the control path, and each streaming
\* thread, is outside its code again and again (which says the same as
\* "not idle leads to idle").
C15_NoDeadlock ==
  /\ [](pc \in HaltPositions => \A k \in EncoderIds : encLock[k] # "ctl")
  /\ []<>(pc = "idle")
  /\ \A k \in EncoderIds : []<>(cb[k].pc = "idle")

\* stop_recording is about to halt the pipeline while its callback waits
\* for the writer's lock.
C15_Witness ==
  /\ pc = "stop_null"
  /\ IsSome(pipeline)
  /\ cb[Unwrap(pipeline)].pc = "lock"

====
